---- MODULE Spec2Model ----
(***************************************************************************)
(* Model of the video / detection-box viewer backend (src/app.py and the   *)
(* router in src/src/routes.py).                                           *)
(*                                                                         *)
(* Strings are sequences of character codes, so that Python's string       *)
(* comparison, str.replace and Path.stem are computed and not assumed:     *)
(*   '-' = 45, '.' = 46, '_' = 95, 'a' = 97, 'b' = 98, 'v' = 118.          *)
(*                                                                         *)
(* Four specifications share the module:                                   *)
(*   Spec        the view cache (_ensure_view) under concurrent requests   *)
(*   SpecQuery   the query handlers over one immutable detection table     *)
(*   SpecSweep   repeated next_hit requests starting at frame 0            *)
(*   SpecCatalog the video listing (_get_video_list)                       *)
(***************************************************************************)
EXTENDS Integers, Sequences, FiniteSets, TLC

VARIABLES
    boxes_dir,       \* names of the files present in BOXES_DIR
    views,           \* DuckDB catalog: view name -> parquet path it scans
    video_cache,     \* _video_cache: video_id -> <<parquet path, view name>>
    pc,              \* per request thread: position in the handler
    req,             \* per request thread: [video_id, op] of the request
    ret,             \* per request thread: value returned by _ensure_view
    table,           \* the detection rows <<frame, box_index>> behind a view
    q,               \* the query being answered and its response
    cursor,          \* sweep: the frame the next next_hit request is sent with
    visited,         \* sweep: the frames next_hit has returned so far
    swept,           \* sweep: next_hit has returned null
    videos_dir,      \* names of the files present in VIDEOS_DIR
    videos_dir_exists,
    listing          \* the pending response of GET /api/videos

vars == <<boxes_dir, views, video_cache, pc, req, ret, table, q, cursor,
          visited, swept, videos_dir, videos_dir_exists, listing>>

cacheVars   == <<boxes_dir, views, video_cache, pc, req, ret>>
queryVars   == <<table, q>>
sweepVars   == <<cursor, visited, swept>>
catalogVars == <<videos_dir, videos_dir_exists, listing>>

(***************************************************************************)
(* Bounds of the model.                                                    *)
(***************************************************************************)
MaxFrameIdx == 3      \* frames of a table are 0, FrameStep, .., MaxFrameIdx*FrameStep
FrameStep   == 20
MaxBox      == 1      \* box_index ranges over 0..MaxBox
MaxRows     == 3      \* a table holds at most MaxRows rows
MaxIdLen    == 2      \* catalog: a video file's stem has 1..MaxIdLen characters
MaxFiles    == 2      \* catalog: VIDEOS_DIR holds at most MaxFiles files

(***************************************************************************)
(* Python values.                                                          *)
(***************************************************************************)
FPS  == 24
None == -1            \* Python None / SQL NULL where an integer frame is expected

MinBinSec == 1
MaxBinSec == 60

(***************************************************************************)
(* Strings.                                                                *)
(***************************************************************************)
IdChars == {45, 46, 95, 97}          \* '-', '.', '_', 'a'
MP4     == <<46, 109, 112, 52>>      \* ".mp4"
TXT     == <<46, 116, 120, 116>>     \* ".txt", a file the glob does not match
PARQUET == <<46, 112, 97, 114, 113, 117, 101, 116>>   \* ".parquet"

\* Python str < str: lexicographic by code point, a proper prefix is smaller.
RECURSIVE StrLess(_, _)
StrLess(a, b) ==
    IF b = <<>> THEN FALSE
    ELSE IF a = <<>> THEN TRUE
    ELSE IF a[1] # b[1] THEN a[1] < b[1]
    ELSE StrLess(Tail(a), Tail(b))

\* str.replace(old, new) for one-character old and new.
StrReplace(s, old, new) == [i \in 1..Len(s) |-> IF s[i] = old THEN new ELSE s[i]]

\* str.endswith(suffix)
EndsWith(s, suffix) ==
    /\ Len(s) >= Len(suffix)
    /\ SubSeq(s, Len(s) - Len(suffix) + 1, Len(s)) = suffix

\* name.rfind('.'), 0-based, -1 when there is no dot
RFindDot(name) ==
    LET dots == {i \in 1..Len(name) : name[i] = 46}
    IN  IF dots = {} THEN -1
        ELSE (CHOOSE i \in dots : \A j \in dots : j <= i) - 1

\* PurePath.stem: the name without its last suffix; a leading or trailing dot
\* starts no suffix.
Stem(name) ==
    LET i == RFindDot(name)
    IN  IF 0 < i /\ i < Len(name) - 1 THEN SubSeq(name, 1, i) ELSE name

\* sorted(): ascending sequence of a set of strings
RECURSIVE SortedNames(_)
SortedNames(S) ==
    IF S = {} THEN <<>>
    ELSE LET m == CHOOSE x \in S : \A y \in S \ {x} : StrLess(x, y)
         IN  <<m>> \o SortedNames(S \ {m})

(***************************************************************************)
(* View cache: _ensure_view, called first by every /api/videos/{video_id}/ *)
(* handler.  FastAPI runs the plain "def" handlers on a thread pool, so    *)
(* requests interleave between the statements of _ensure_view.             *)
(***************************************************************************)
Threads  == {"t1", "t2"}
VideoIds == {<<97, 45, 98>>, <<97, 95, 98>>, <<97, 46, 98>>, <<97, 98>>}
            \* "a-b", "a_b", "a.b", "ab"
Ops      == {"boxes", "timeline", "next_hit", "prev_hit"}

NoReq  == [video_id |-> <<>>, op |-> "none"]
NoView == <<>>

Put(f, k, v) == [x \in DOMAIN f \cup {k} |-> IF x = k THEN v ELSE f[x]]

\* BOXES_DIR / f"{video_id}.parquet"
ParquetPath(video_id) == video_id \o PARQUET

\* f"v_{video_id}".replace("-", "_").replace(".", "_")
ViewName(video_id) ==
    StrReplace(StrReplace(<<118, 95>> \o video_id, 45, 95), 46, 95)

\* if video_id in _video_cache
CacheHit_revalidate(video_id) ==
    video_id \in DOMAIN video_cache /\ ParquetPath(video_id) \in boxes_dir
CacheHit(video_id) == video_id \in DOMAIN video_cache

\* pq.exists()
ParquetExists(video_id) == ParquetPath(video_id) \in boxes_dir

\* Handler entry and the cache lookup of _ensure_view: a hit returns the
\* cached view name at once.
Request(t, video_id, op) ==
    /\ pc[t] = "idle"
    /\ req' = [req EXCEPT ![t] = [video_id |-> video_id, op |-> op]]
    /\ IF CacheHit(video_id)
       THEN /\ pc'  = [pc EXCEPT ![t] = "hit"]
            /\ ret' = [ret EXCEPT ![t] = video_cache[video_id][2]]
       ELSE /\ pc'  = [pc EXCEPT ![t] = "exists"]
            /\ ret' = ret
    /\ UNCHANGED <<boxes_dir, views, video_cache, queryVars, sweepVars, catalogVars>>

api_boxes(t, video_id)    == Request(t, video_id, "boxes")
api_timeline(t, video_id) == Request(t, video_id, "timeline")
api_next_hit(t, video_id) == Request(t, video_id, "next_hit")
api_prev_hit(t, video_id) == Request(t, video_id, "prev_hit")

\* if not pq.exists(): raise HTTPException(status_code=404)
CheckExists(t) ==
    /\ pc[t] = "exists"
    /\ pc' = [pc EXCEPT ![t] =
                 IF ParquetExists(req[t].video_id) THEN "create" ELSE "http404"]
    /\ UNCHANGED <<boxes_dir, views, video_cache, req, ret,
                   queryVars, sweepVars, catalogVars>>

\* con.execute("CREATE VIEW {view} AS SELECT .. FROM parquet_scan('{pq}')").
\* DuckDB binds the query first (reading the file's schema, an IO error when
\* the file is gone) and then adds the view to the catalog, which fails when
\* the name is taken.  Either exception leaves _ensure_view and the handler.
CreateView(t) ==
    LET video_id == req[t].video_id
        view     == ViewName(video_id)
    IN  /\ pc[t] = "create"
        /\ IF ~ParquetExists(video_id)
           THEN pc' = [pc EXCEPT ![t] = "io_error"] /\ views' = views
           ELSE IF view \in DOMAIN views
           THEN pc' = [pc EXCEPT ![t] = "catalog_error"] /\ views' = views
           ELSE /\ pc' = [pc EXCEPT ![t] = "store"]
                /\ views' = Put(views, view, ParquetPath(video_id))
        /\ UNCHANGED <<boxes_dir, video_cache, req, ret,
                       queryVars, sweepVars, catalogVars>>

\* _video_cache[video_id] = (pq, view); return view
StoreCache(t) ==
    LET video_id == req[t].video_id
        view     == ViewName(video_id)
    IN  /\ pc[t] = "store"
        /\ video_cache' = Put(video_cache, video_id, <<ParquetPath(video_id), view>>)
        /\ ret' = [ret EXCEPT ![t] = view]
        /\ pc'  = [pc EXCEPT ![t] = "built"]
        /\ UNCHANGED <<boxes_dir, views, req, queryVars, sweepVars, catalogVars>>

\* The handler runs its query on the view and the response is sent, or the
\* exception becomes the response (404, or 500 for a DuckDB error).
Respond(t) ==
    /\ pc[t] \in {"hit", "built", "http404", "io_error", "catalog_error"}
    /\ pc'  = [pc EXCEPT ![t] = "idle"]
    /\ req' = [req EXCEPT ![t] = NoReq]
    /\ ret' = [ret EXCEPT ![t] = NoView]
    /\ UNCHANGED <<boxes_dir, views, video_cache, queryVars, sweepVars, catalogVars>>

\* Detection tables are written and removed outside the process.
AddBoxesFile(video_id) ==
    /\ ~ParquetExists(video_id)
    /\ boxes_dir' = boxes_dir \cup {ParquetPath(video_id)}
    /\ UNCHANGED <<views, video_cache, pc, req, ret, queryVars, sweepVars, catalogVars>>

RemoveBoxesFile(video_id) ==
    /\ ParquetExists(video_id)
    /\ boxes_dir' = boxes_dir \ {ParquetPath(video_id)}
    /\ UNCHANGED <<views, video_cache, pc, req, ret, queryVars, sweepVars, catalogVars>>

\* the subsets of S with at most k elements
RECURSIVE SubsetsUpTo(_, _)
SubsetsUpTo(S, k) ==
    IF k = 0 THEN {{}}
    ELSE LET P == SubsetsUpTo(S, k - 1)
         IN  P \cup {p \cup {x} : p \in P, x \in S}

(***************************************************************************)
(* Video catalog: _get_video_list, GET /api/videos.                        *)
(***************************************************************************)
Ids       == UNION {[1..n -> IdChars] : n \in 1..MaxIdLen}
FileNames == {id \o ext : id \in Ids, ext \in {MP4, TXT}}

\* p.stem
video_id_from_name(name) == Stem(name)

\* VIDEOS_DIR.glob("*.mp4"): the names that end in ".mp4"
GlobMp4(dir) == {n \in dir : EndsWith(n, MP4)}

\* sorted(VIDEOS_DIR.glob("*.mp4")): paths of one directory compare by name
SortedGlob(dir) == SortedNames(GlobMp4(dir))

\* the list _get_video_list returns; url is "/videos/" + file and fps is FPS
get_video_list ==
    IF ~videos_dir_exists THEN <<>>
    ELSE LET ps == SortedGlob(videos_dir)
         IN  [i \in 1..Len(ps) |->
                 [video_id |-> video_id_from_name(ps[i]), file |-> ps[i], fps |-> FPS]]

NoListing == [pending |-> FALSE, out |-> <<>>]

\* The directory changes between requests; a computed response is not
\* affected by later changes, so none are interleaved while it is pending.
AddVideoFile(n) ==
    /\ videos_dir_exists /\ ~listing.pending
    /\ n \notin videos_dir
    /\ Cardinality(videos_dir) < MaxFiles
    /\ videos_dir' = videos_dir \cup {n}
    /\ UNCHANGED <<videos_dir_exists, listing, cacheVars, queryVars, sweepVars>>

RemoveVideoFile(n) ==
    /\ ~listing.pending
    /\ n \in videos_dir
    /\ videos_dir' = videos_dir \ {n}
    /\ UNCHANGED <<videos_dir_exists, listing, cacheVars, queryVars, sweepVars>>

RemoveVideosDir ==
    /\ videos_dir_exists /\ ~listing.pending
    /\ videos_dir = {}
    /\ videos_dir_exists' = FALSE
    /\ UNCHANGED <<videos_dir, listing, cacheVars, queryVars, sweepVars>>

MakeVideosDir ==
    /\ ~videos_dir_exists /\ ~listing.pending
    /\ videos_dir_exists' = TRUE
    /\ UNCHANGED <<videos_dir, listing, cacheVars, queryVars, sweepVars>>

api_videos ==
    /\ ~listing.pending
    /\ listing' = [pending |-> TRUE, out |-> get_video_list]
    /\ UNCHANGED <<videos_dir, videos_dir_exists, cacheVars, queryVars, sweepVars>>

SendListing ==
    /\ listing.pending
    /\ listing' = NoListing
    /\ UNCHANGED <<videos_dir, videos_dir_exists, cacheVars, queryVars, sweepVars>>

NoCache == /\ boxes_dir = {} /\ views = <<>> /\ video_cache = <<>>
           /\ pc = <<>> /\ req = <<>> /\ ret = <<>>
NoQuery == table = {} /\ q = [op |-> "idle"]
NoSweep == cursor = 0 /\ visited = <<>> /\ swept = FALSE
NoCatalog == videos_dir = {} /\ videos_dir_exists = TRUE /\ listing = NoListing

\* app.mount(StaticFiles(directory=VIDEOS_DIR)) requires the directory at start.
InitCatalog ==
    /\ videos_dir_exists = TRUE
    /\ videos_dir \in SubsetsUpTo(FileNames, MaxFiles)
    /\ listing = NoListing
    /\ NoCache /\ NoQuery /\ NoSweep

NextCatalog ==
    \/ \E n \in FileNames : AddVideoFile(n)
    \/ \E n \in FileNames : RemoveVideoFile(n)
    \/ RemoveVideosDir
    \/ MakeVideosDir
    \/ api_videos
    \/ SendListing

SpecCatalog == InitCatalog /\ [][NextCatalog]_vars

\* C8: the listing has one entry per video file, video_id = file name without
\* extension, in lexicographic order of video_id.
C8_ListingSortedByVideoId ==
    listing.pending /\ videos_dir_exists =>
        LET out == listing.out
            mp4 == {n \in videos_dir : EndsWith(n, MP4)}
        IN  /\ Len(out) = Cardinality(mp4)
            /\ {out[i].file : i \in 1..Len(out)} = mp4
            /\ \A i \in 1..Len(out) :
                   out[i].video_id = SubSeq(out[i].file, 1, Len(out[i].file) - Len(MP4))
            /\ \A i, j \in 1..Len(out) :
                   i < j => StrLess(out[i].video_id, out[j].video_id)

(***************************************************************************)
(* The view cache under concurrent requests.                               *)
(***************************************************************************)
Init ==
    /\ boxes_dir \in SUBSET {ParquetPath(v) : v \in VideoIds}
    /\ views = <<>>
    /\ video_cache = <<>>
    /\ pc  = [t \in Threads |-> "idle"]
    /\ req = [t \in Threads |-> NoReq]
    /\ ret = [t \in Threads |-> NoView]
    /\ NoQuery /\ NoSweep /\ NoCatalog

Next ==
    \/ \E t \in Threads, v \in VideoIds : api_boxes(t, v)
    \/ \E t \in Threads, v \in VideoIds : api_timeline(t, v)
    \/ \E t \in Threads, v \in VideoIds : api_next_hit(t, v)
    \/ \E t \in Threads, v \in VideoIds : api_prev_hit(t, v)
    \/ \E t \in Threads : CheckExists(t)
    \/ \E t \in Threads : CreateView(t)
    \/ \E t \in Threads : StoreCache(t)
    \/ \E t \in Threads : Respond(t)
    \/ \E v \in VideoIds : AddBoxesFile(v)
    \/ \E v \in VideoIds : RemoveBoxesFile(v)

Spec == Init /\ [][Next]_vars

InFlight(t) == pc[t] \in {"exists", "create", "store"}

\* C1: concurrent first-time resolutions of one video_id construct its view
\* once: no request runs a construction of its own (and has it fail on the
\* name) after another request has constructed the view of that video_id.
C1_SingleConstruction ==
    \A t \in Threads :
        pc[t] = "catalog_error" =>
            views[ViewName(req[t].video_id)] # ParquetPath(req[t].video_id)

\* C2: a request for a video_id without a backing table ends in 404 and leaves
\* the cache without an entry for it; once the table exists, the next
\* resolution of that video_id (no other resolution running meanwhile) succeeds.
C2_NotFoundLeavesNoTombstone ==
    [][\A t \in Threads :
          /\ (pc[t] = "exists" /\ pc'[t] # "exists" /\ ~ParquetExists(req[t].video_id))
                => /\ pc'[t] = "http404"
                   /\ video_cache' = video_cache
          /\ (/\ pc[t] = "create" /\ pc'[t] # "create"
              /\ ParquetExists(req[t].video_id)
              /\ req[t].video_id \notin DOMAIN video_cache
              /\ \A u \in Threads \ {t} : ~InFlight(u))
                => pc'[t] = "store"
      ]_vars

\* C3: a cache entry, once made, is never removed or changed, and a request
\* for a cached video_id gets the cached view name without the backing file
\* being looked at.
C3_CacheAppendOnlyAndHit ==
    [][/\ \A v \in DOMAIN video_cache :
              v \in DOMAIN video_cache' /\ video_cache'[v] = video_cache[v]
       /\ \A t \in Threads :
              (pc[t] = "idle" /\ pc'[t] # "idle" /\ req'[t].video_id \in DOMAIN video_cache)
                  => /\ pc'[t] = "hit"
                     /\ ret'[t] = video_cache[req'[t].video_id][2]
                     /\ video_cache' = video_cache
      ]_vars

\* a cached video_id whose file is gone is resolved from the cache
C3_Witness ==
    \E t \in Threads :
        /\ pc[t] = "hit"
        /\ ~ParquetExists(req[t].video_id)
        /\ ret[t] = ViewName(req[t].video_id)

\* C10: distinct video_ids get distinct view names, each over its own table:
\* no resolution fails because its view name is held by the view of another
\* video_id, and no two cache entries share a view name.
C10_DistinctHandles ==
    /\ \A t \in Threads :
           pc[t] = "catalog_error" =>
               views[ViewName(req[t].video_id)] = ParquetPath(req[t].video_id)
    /\ \A v, w \in DOMAIN video_cache :
           v # w => video_cache[v][2] # video_cache[w][2]

(***************************************************************************)
(* Box queries.  A view exposes one parquet file as rows                   *)
(* (frame, box_index, x, y, width, height); the coordinates are passed     *)
(* through unchanged and are left out, a row is <<frame, box_index>>, and  *)
(* box_index distinguishes the rows of one frame.                          *)
(***************************************************************************)
Frames == {i * FrameStep : i \in 0..MaxFrameIdx}
Boxes  == 0..MaxBox
Tables == SubsetsUpTo(Frames \X Boxes, MaxRows)

\* the frames requests are made with: each table frame and its neighbours
QueryFrames ==
    {f \in 0..(MaxFrameIdx * FrameStep + 1) : \E g \in Frames : f \in {g - 1, g, g + 1}}

\* SQL MIN / MAX: NULL over no rows
SqlMin(S) == IF S = {} THEN None ELSE CHOOSE x \in S : \A y \in S : x <= y
SqlMax(S) == IF S = {} THEN None ELSE CHOOSE x \in S : \A y \in S : y <= x

\* WHERE frame = ?
FrameEq_ge(r, frame) == r[1] >= frame
FrameEq(r, frame) == r[1] = frame

\* ORDER BY box_index
RECURSIVE OrderByBoxIndex_desc(_)
OrderByBoxIndex_desc(S) ==
    IF S = {} THEN <<>>
    ELSE LET m == CHOOSE r \in S : \A o \in S : o[2] <= r[2]
         IN  <<m>> \o OrderByBoxIndex_desc(S \ {m})
RECURSIVE OrderByBoxIndexRec(_)
OrderByBoxIndexRec(S) ==
    IF S = {} THEN <<>>
    ELSE LET m == CHOOSE r \in S : \A o \in S : r[2] <= o[2]
         IN  <<m>> \o OrderByBoxIndexRec(S \ {m})
OrderByBoxIndex(S) == OrderByBoxIndexRec(S)

\* SELECT x, y, width, height, box_index FROM view WHERE frame = ?
\* ORDER BY box_index, and the list of dicts built from the rows
BoxesAt(t, frame) ==
    LET rows == OrderByBoxIndex({r \in t : FrameEq(r, frame)})
    IN  [i \in 1..Len(rows) |-> [box_index |-> rows[i][2]]]

\* rows with start_frame <= frame <= end_frame in (frame, box_index) order
RECURSIVE OrderByFrameBox(_)
OrderByFrameBox(S) ==
    IF S = {} THEN <<>>
    ELSE LET m == CHOOSE r \in S : \A o \in S :
                      r[1] < o[1] \/ (r[1] = o[1] /\ r[2] <= o[2])
         IN  <<m>> \o OrderByFrameBox(S \ {m})
query_boxes_range(t, start_frame, end_frame) ==
    LET rows == OrderByFrameBox({r \in t : start_frame <= r[1] /\ r[1] <= end_frame})
    IN  [i \in 1..Len(rows) |-> [frame |-> rows[i][1], box_index |-> rows[i][2]]]

\* CAST(FLOOR(frame / 24.0) AS INTEGER): frame is a non-negative INTEGER, and
\* the double quotient of such a frame by 24 floors to the integer quotient
Sec(frame) == frame \div FPS

\* CAST(FLOOR(sec / bin_sec) AS INTEGER)
BinOf(sec, bin_sec) == sec \div bin_sec

\* SELECT bin, COUNT(*) AS cnt .. GROUP BY bin ORDER BY bin
RECURSIVE OrderByBin(_)
OrderByBin(S) ==
    IF S = {} THEN <<>>
    ELSE LET m == CHOOSE r \in S : \A o \in S : r[1] <= o[1]
         IN  <<m>> \o OrderByBin(S \ {m})
TimelineRows(t, bin_sec) ==
    LET bins == {BinOf(Sec(r[1]), bin_sec) : r \in t}
    IN  OrderByBin({<<b, Cardinality({r \in t : BinOf(Sec(r[1]), bin_sec) = b})>> : b \in bins})

\* max_bin = rows[-1][0]
MaxBin_first(rows) == rows[1][1]
MaxBin(rows) == rows[Len(rows)][1]

\* for b, cnt in rows: counts[b] = int(cnt)     (counts[b] is counts[b + 1] here)
RECURSIVE FillCounts(_, _, _)
FillCounts(counts, rows, i) ==
    IF i > Len(rows) THEN counts
    ELSE FillCounts([counts EXCEPT ![rows[i][1] + 1] = rows[i][2]], rows, i + 1)

\* if not rows: counts = []; else counts = [0] * (max_bin + 1), then filled
TimelineCounts(t, bin_sec) ==
    LET rows == TimelineRows(t, bin_sec)
    IN  IF rows = <<>> THEN <<>>
        ELSE FillCounts([i \in 1..(MaxBin(rows) + 1) |-> 0], rows, 1)

\* SELECT MIN(frame) FROM view WHERE frame > ?
NextHitAgg_max(S) == SqlMax(S)
NextHitAgg(S) == SqlMin(S)
NextHit(t, frame) == NextHitAgg({r[1] : r \in {o \in t : o[1] > frame}})

\* SELECT MAX(frame) FROM view WHERE frame < ?
PrevFilter_le(r, frame) == r[1] <= frame
PrevFilter(r, frame) == r[1] < frame
PrevHit(t, frame) == SqlMax({r[1] : r \in {o \in t : PrevFilter(o, frame)}})

Idle == [op |-> "idle"]

\* GET /api/videos/{video_id}/boxes?frame=, frame >= 0, on the resolved view
QueryBoxes(frame) ==
    /\ q = Idle
    /\ q' = [op |-> "boxes", frame |-> frame, out |-> BoxesAt(table, frame)]
    /\ UNCHANGED <<table, cacheVars, sweepVars, catalogVars>>

\* GET /api/videos/{video_id}/boxes_range?start_frame=&end_frame=, both >= 0
QueryBoxesRange(start_frame, end_frame) ==
    /\ q = Idle
    /\ q' = [op |-> "boxes_range", start_frame |-> start_frame, end_frame |-> end_frame,
             out |-> query_boxes_range(table, start_frame, end_frame)]
    /\ UNCHANGED <<table, cacheVars, sweepVars, catalogVars>>

\* GET /api/videos/{video_id}/timeline?bin_sec=, 1 <= bin_sec <= 60
QueryTimeline(bin_sec) ==
    /\ q = Idle
    /\ q' = [op |-> "timeline", bin_sec |-> bin_sec, out |-> TimelineCounts(table, bin_sec)]
    /\ UNCHANGED <<table, cacheVars, sweepVars, catalogVars>>

\* GET /api/videos/{video_id}/next_hit?frame=, frame >= 0
QueryNextHit(frame) ==
    /\ q = Idle
    /\ q' = [op |-> "next_hit", frame |-> frame, out |-> NextHit(table, frame)]
    /\ UNCHANGED <<table, cacheVars, sweepVars, catalogVars>>

\* GET /api/videos/{video_id}/prev_hit?frame=, frame >= 0
QueryPrevHit(frame) ==
    /\ q = Idle
    /\ q' = [op |-> "prev_hit", frame |-> frame, out |-> PrevHit(table, frame)]
    /\ UNCHANGED <<table, cacheVars, sweepVars, catalogVars>>

\* the response is sent
SendResponse ==
    /\ q # Idle
    /\ q' = Idle
    /\ UNCHANGED <<table, cacheVars, sweepVars, catalogVars>>

InitQuery ==
    /\ table \in Tables
    /\ q = Idle
    /\ NoCache /\ NoSweep /\ NoCatalog

NextQuery ==
    \/ \E f \in QueryFrames : QueryBoxes(f)
    \/ \E a, b \in QueryFrames : QueryBoxesRange(a, b)
    \/ \E k \in MinBinSec..MaxBinSec : QueryTimeline(k)
    \/ \E f \in QueryFrames : QueryNextHit(f)
    \/ \E f \in QueryFrames : QueryPrevHit(f)
    \/ SendResponse

SpecQuery == InitQuery /\ [][NextQuery]_vars

\* The client asks for the next hit of the frame it is at and moves to the
\* returned frame, starting at frame 0, until null is returned.
SweepNextHit ==
    /\ ~swept
    /\ LET r == NextHit(table, cursor)
       IN  IF r = None
           THEN swept' = TRUE /\ UNCHANGED <<cursor, visited>>
           ELSE /\ cursor' = r
                /\ visited' = Append(visited, r)
                /\ swept' = FALSE
    /\ UNCHANGED <<table, q, cacheVars, catalogVars>>

InitSweep ==
    /\ table \in Tables
    /\ q = Idle
    /\ cursor = 0 /\ visited = <<>> /\ swept = FALSE
    /\ NoCache /\ NoCatalog

SpecSweep == InitSweep /\ [][SweepNextHit]_vars

OccupiedFrames == {r[1] : r \in table}

RECURSIVE SumSeq(_)
SumSeq(sq) == IF sq = <<>> THEN 0 ELSE Head(sq) + SumSeq(Tail(sq))

StrictlyIncreasing(sq) == \A i, j \in 1..Len(sq) : i < j => sq[i] < sq[j]

\* C4 as claimed: the sweep from frame 0 visits every occupied frame exactly
\* once, in increasing order, and ends with null.
C4_SweepVisitsEveryOccupiedFrame ==
    /\ StrictlyIncreasing(visited)
    /\ swept => {visited[i] : i \in 1..Len(visited)} = OccupiedFrames

\* C4 amended: the sweep from frame 0 visits every occupied frame greater
\* than 0 exactly once, in increasing order, and ends with null; frame 0
\* itself is never returned.
C4_SweepVisitsOccupiedFramesAfterZero ==
    /\ StrictlyIncreasing(visited)
    /\ \A i \in 1..Len(visited) : visited[i] \in OccupiedFrames /\ visited[i] > 0
    /\ swept => {visited[i] : i \in 1..Len(visited)} = {f \in OccupiedFrames : f > 0}

\* a finished sweep over a table with detections at frame 0 and at two later frames
C4_Witness ==
    swept /\ Len(visited) = 2 /\ 0 \in OccupiedFrames

\* C5: timeline is dense: as long as the largest occupied bin plus one (empty
\* for an empty table), entry i counts the rows of bin i, and the entries sum
\* to the number of rows.
C5_TimelineDense ==
    q.op = "timeline" =>
        LET bin(r)   == (r[1] \div 24) \div q.bin_sec
            occupied == {bin(r) : r \in table}
        IN  IF table = {} THEN q.out = <<>>
            ELSE LET maxOccupiedBin == CHOOSE b \in occupied : \A c \in occupied : c <= b
                 IN  /\ Len(q.out) = maxOccupiedBin + 1
                     /\ \A i \in 0..maxOccupiedBin :
                            q.out[i + 1] = Cardinality({r \in table : bin(r) = i})
                     /\ SumSeq(q.out) = Cardinality(table)

\* a timeline with a zero-filled gap between two occupied bins
C5_Witness ==
    /\ q.op = "timeline"
    /\ Len(q.out) >= 3
    /\ \E i \in 2..(Len(q.out) - 1) : q.out[i] = 0
    /\ \E i \in 1..Len(q.out) : q.out[i] >= 2

RECURSIVE ConcatPointQueries(_, _, _)
ConcatPointQueries(t, a, b) ==
    IF a > b THEN <<>>
    ELSE LET p == BoxesAt(t, a)
         IN  [i \in 1..Len(p) |-> [frame |-> a, box_index |-> p[i].box_index]]
                 \o ConcatPointQueries(t, a + 1, b)

\* C6: the range query returns the point query results of the frames a..b one
\* after the other, and nothing when a > b.
C6_RangeIsConcatOfPoints ==
    q.op = "boxes_range" =>
        /\ q.out = ConcatPointQueries(table, q.start_frame, q.end_frame)
        /\ q.start_frame > q.end_frame => q.out = <<>>

\* a range that covers two frames, one of them with two boxes
C6_Witness ==
    /\ q.op = "boxes_range"
    /\ Len(q.out) = 3
    /\ q.out[1].frame = q.out[2].frame
    /\ q.out[2].frame < q.out[3].frame

\* C7: the point query returns exactly the rows of the frame, by ascending
\* box_index, and nothing exactly when no row has the frame.
C7_PointQueryRows ==
    q.op = "boxes" =>
        LET at == {r \in table : r[1] = q.frame}
        IN  /\ Len(q.out) = Cardinality(at)
            /\ {q.out[i].box_index : i \in 1..Len(q.out)} = {r[2] : r \in at}
            /\ \A i, j \in 1..Len(q.out) :
                   i < j => q.out[i].box_index < q.out[j].box_index
            /\ q.out = <<>> <=> at = {}

\* a point query on a frame with two boxes, in a table with other frames
C7_Witness ==
    /\ q.op = "boxes"
    /\ Len(q.out) = 2
    /\ \E r \in table : r[1] # q.frame

\* C9: prev_hit returns the largest occupied frame strictly below the given
\* frame, and null exactly when there is none.
C9_PrevHitLargestBelow ==
    q.op = "prev_hit" =>
        LET below == {f \in OccupiedFrames : f < q.frame}
        IN  /\ q.out = None <=> below = {}
            /\ q.out # None =>
                   /\ q.out \in below
                   /\ \A f \in below : f <= q.out

\* prev_hit asked on an occupied frame with two occupied frames below it
C9_Witness ==
    /\ q.op = "prev_hit"
    /\ q.frame \in OccupiedFrames
    /\ Cardinality({f \in OccupiedFrames : f < q.frame}) = 2
    /\ q.out # None

====
